---- MODULE Spec2Model ----
(***************************************************************************)
(* A model of vrc_sa_node (src/src/main.rs): the connection lifecycle of a *)
(* Bluetooth heart-rate peripheral (scan, connect with retry, capability   *)
(* discovery, subscription) and the notification loop of main, which       *)
(* forwards each notification as an OSC message and appends a CSV row,     *)
(* and reconnects when the wait for a notification times out.              *)
(***************************************************************************)
EXTENDS Naturals, Sequences, FiniteSets

(* ------------------------------ bounds --------------------------------- *)
\* the timeout threshold, in ticks of the model's clock (--timeout-threshold)
Threshold == 2
\* the clock saturates here
MaxTime == 2
\* notifications the peripheral delivers over a run
MaxNotifs == 2
\* sessions produced over a run
MaxSessions == 3
\* consecutive failures of the peripheral's connect call
MaxConnFail == 2
\* consecutive empty scans counted in interactive mode
MaxEmptyScans == 2

(* ------------------------ constants of the program --------------------- *)
BATTERY_LEVEL_CHARACTERISTIC_UUID == "2a19"
HEART_RATE_CHARACTERISTIC_UUID == "2a37"
HeartRateOscAddress == "/avatar/parameters/HeartRate"
EmptyName == "(Empty)"
ScanAgainItem == "[Scan again]"
U8_MAX == 255
Receiver == "127.0.0.1:9000"

(* ----------------------------- value sets ------------------------------ *)
None == "None"
Addrs == {"A1", "A2"}
LocalNames == {"polar"}
Characteristics == {BATTERY_LEVEL_CHARACTERISTIC_UUID, HEART_RATE_CHARACTERISTIC_UUID}

\* the payloads a notification can carry: empty, one byte, and payloads of two
\* or three bytes that agree or differ at index 1 (60 and 75 beats per minute)
Payloads == {<<>>, <<6>>, <<0, 75>>, <<22, 75, 3>>, <<0, 60>>}
\* what Adapter::peripherals() can report: the visible peripherals, in some order
ScanResults == {<<>>, <<"A1">>, <<"A2">>, <<"A1", "A2">>, <<"A2", "A1">>}
\* what Peripheral::read of the battery characteristic can return
BatteryValues == {<<>>, <<90>>}

VARIABLES
    pc,             \* position of the single control flow
    target,         \* maybe_peripheral_address of the running connect_to_peripheral
    caller,         \* the call site of connect_to_peripheral: "initial" (line 129),
                    \* "reconnect" (line 164), "none" when it is not running
    scanning,       \* the adapter has a scan started and not stopped
    peripherals,    \* interactive_peripheral_scan: the peripherals of the latest scan
    items,          \* interactive_peripheral_scan: peripheral_selection_items
    peripheral,     \* connect_to_peripheral: the resolved peripheral (its address)
    props,          \* connect_to_peripheral: peripheral_address, peripheral_local_name
    connFails,      \* consecutive failures of peripheral.connect() in this attempt
    characteristics,\* connect_to_peripheral: the discovered characteristics
    subscribed,     \* this attempt has subscribed to the heart rate characteristic
    nextSid,        \* identity of the next connect attempt
    session,        \* main: connected_peripheral
    writer,         \* main: the csv writer: [open, buffered]
    data,           \* main: the notification being processed: [sid, value]
    waited,         \* ticks since timeout(threshold, ..) started
    now,            \* the wall clock
    notified,       \* notifications delivered so far
    outcome,        \* how the last timeout(..).await resolved
    failure,        \* why the process ended
    sent,           \* datagrams sent on the socket
    rows,           \* rows flushed to the log file
    timeoutsSince,  \* waits that timed out since the last processed notification
    connectsSince,  \* reconnect calls since the last processed notification
    taken,          \* notifications main has taken from a stream
    emptyScans,     \* interactive_peripheral_scan: consecutive empty scans so far
    lookups,        \* get_peripheral_local_names: the name found for each peripheral
                    \* of the scan and the order the lookups completed in
    selection,      \* interactive_peripheral_scan: peripheral_selection
    battery_level   \* connect_to_peripheral: the battery level read, <<>> before

vars == <<pc, target, caller, scanning, peripherals, items, peripheral, props,
          connFails, characteristics, subscribed, nextSid, session, writer, data,
          waited, now, notified, outcome, failure, sent, rows, timeoutsSince,
          connectsSince, taken, emptyScans, lookups, selection, battery_level>>

selVars == <<emptyScans, lookups, selection, battery_level>>
connVars == <<peripherals, items, peripheral, props, connFails, characteristics,
              selVars>>
mainVars == <<session, writer, data, waited, outcome, sent, rows>>
histVars == <<timeoutsSince, connectsSince, taken>>
envVars == <<now, notified>>

NoSession == [address |-> None, name |-> None, sid |-> 0,
              notification_stream |-> <<>>, closed |-> FALSE]
NoProps == [address |-> None, name |-> None]
NoData == [sid |-> 0, value |-> <<>>]
NoLookups == [names |-> <<>>, order |-> <<>>]

(* ------------------------------ helpers -------------------------------- *)
\* the variables a step to the end of the process leaves alone
restVars == <<target, caller, scanning, peripherals, items, peripheral, props,
              connFails, characteristics, subscribed, nextSid, session, writer,
              data, waited, now, notified, outcome, sent, rows, timeoutsSince,
              connectsSince, taken, selVars>>

\* a variant of Exit: the failure is logged and the failed step is tried again
Exit_retries(why) == /\ failure' = why
                     /\ UNCHANGED pc
                     /\ UNCHANGED restVars

\* an Err that `?` carries out of main: the process exits
Exit(why) == /\ pc' = "exited"
             /\ failure' = why
             /\ UNCHANGED restVars

\* unwrap / expect / index out of bounds: the process panics
Panic(why) == /\ pc' = "panicked"
              /\ failure' = why
              /\ UNCHANGED restVars

Running == pc \notin {"exited", "panicked"}

\* a variant of Find: the first visible peripheral, whatever its address
Find_first(ps, address) == IF ps # <<>> THEN ps[1] ELSE None

\* peripherals.iter().find(|peripheral| peripheral.address() == address)
Find(ps, address) ==
    IF \E i \in 1..Len(ps) : ps[i] = address
    THEN ps[CHOOSE i \in 1..Len(ps) :
                /\ ps[i] = address
                /\ \A j \in 1..(i - 1) : ps[j] # address]
    ELSE None

\* peripherals.get(index), index counted from 0
Get(ps, index) == IF index + 1 \in 1..Len(ps) THEN ps[index + 1] ELSE None

\* local_name.unwrap_or("(Empty)")
NameOrEmpty(n) == IF n = None THEN EmptyName ELSE n

\* u8::to_string: the decimal digits
RECURSIVE ToString(_)
ToString(n) == IF n < 10 THEN <<n>> ELSE Append(ToString(n \div 10), n % 10)

\* a variant of BeatsPerMinute: the byte at index 0
BeatsPerMinute_byteZero(value) == value[1]

\* data.value[1]
BeatsPerMinute(value) == value[2]

\* f32::from(beats_per_minute) / f32::from(u8::MAX), kept as a fraction
Percent(bpm) == [num |-> bpm, den |-> U8_MAX]

\* a variant of ReconnectTarget: no address, so the operator is prompted again
ReconnectTarget_prompts(s) == None

\* the target main passes to connect_to_peripheral on a timeout
ReconnectTarget(s) == s.address

\* a variant of ConnectedPeripheral: the stream of the old session is kept
ConnectedPeripheral_keepsStream(p, sid) ==
    [address |-> p.address, name |-> p.name, sid |-> sid,
     notification_stream |-> session.notification_stream,
     closed |-> session.closed]

\* the value connect_to_peripheral returns
ConnectedPeripheral(p, sid) ==
    [address |-> p.address, name |-> p.name, sid |-> sid,
     notification_stream |-> <<>>, closed |-> FALSE]

(* ------------------------------- Init ---------------------------------- *)
Init == /\ pc = "main_connect"
        /\ target \in Addrs \cup {None}
        /\ caller = "none"
        /\ scanning = FALSE
        /\ peripherals = <<>>
        /\ items = <<>>
        /\ peripheral = None
        /\ props = NoProps
        /\ connFails = 0
        /\ characteristics = {}
        /\ subscribed = FALSE
        /\ nextSid = 1
        /\ session = NoSession
        /\ writer = [open |-> FALSE, buffered |-> <<>>]
        /\ data = NoData
        /\ waited = 0
        /\ now = 0
        /\ notified = 0
        /\ outcome = "none"
        /\ failure = "none"
        /\ sent = <<>>
        /\ rows = <<>>
        /\ timeoutsSince = 0
        /\ connectsSince = 0
        /\ taken = 0
        /\ emptyScans = 0
        /\ lookups = NoLookups
        /\ selection = 0
        /\ battery_level = <<>>

(* ----------------------- connect_to_peripheral ------------------------- *)
\* the call: lines 238-246 choose the selector by the argument
CallConnect(t, c) ==
    /\ pc' = IF t # None THEN "sfp_start" ELSE "ips_start"
    /\ target' = t
    /\ caller' = c
    /\ connectsSince' = IF c = "reconnect" THEN connectsSince + 1 ELSE connectsSince

\* the return: the frame of connect_to_peripheral and its locals are gone
ReturnFromConnect ==
    /\ target' = None
    /\ caller' = "none"
    /\ connFails' = 0
    /\ subscribed' = FALSE
    /\ peripheral' = None
    /\ props' = NoProps
    /\ characteristics' = {}
    /\ peripherals' = <<>>
    /\ items' = <<>>
    /\ emptyScans' = 0
    /\ lookups' = NoLookups
    /\ selection' = 0
    /\ battery_level' = <<>>

\* main, line 129
MainConnect ==
    /\ pc = "main_connect"
    /\ CallConnect(target, "initial")
    /\ UNCHANGED <<scanning, subscribed, nextSid, timeoutsSince, taken, failure>>
    /\ UNCHANGED connVars
    /\ UNCHANGED mainVars
    /\ UNCHANGED envVars

\* scan_for_peripheral, line 52
SfpStartScan ==
    /\ pc = "sfp_start"
    /\ \/ /\ scanning' = TRUE
          /\ pc' = "sfp_poll"
          /\ UNCHANGED <<target, caller, subscribed, nextSid, failure>>
          /\ UNCHANGED <<connVars, mainVars, histVars, envVars>>
       \/ Exit("start_scan")

\* scan_for_peripheral, lines 54-62: one round of the polling loop
SfpPoll ==
    /\ pc = "sfp_poll"
    /\ \/ /\ now' = (IF now < MaxTime THEN now + 1 ELSE now)
          /\ \E ps \in ScanResults :
                /\ peripheral' = Find(ps, target)
                /\ pc' = IF Find(ps, target) # None THEN "sfp_stop" ELSE "sfp_poll"
          /\ UNCHANGED <<target, caller, scanning, subscribed, nextSid, failure, notified>>
          /\ UNCHANGED <<peripherals, items, props, connFails, characteristics>>
          /\ UNCHANGED <<selVars, mainVars, histVars>>
       \/ Exit("peripherals")

\* scan_for_peripheral, line 64
SfpStopScan ==
    /\ pc = "sfp_stop"
    /\ \/ /\ scanning' = FALSE
          /\ pc' = "props"
          /\ UNCHANGED <<target, caller, subscribed, nextSid, failure>>
          /\ UNCHANGED <<connVars, mainVars, histVars, envVars>>
       \/ Exit("stop_scan")

\* interactive_peripheral_scan, line 172: scan_for, line 39
IpsStartScan ==
    /\ pc = "ips_start"
    /\ \/ /\ scanning' = TRUE
          /\ pc' = "ips_stop"
          /\ UNCHANGED <<target, caller, subscribed, nextSid, failure>>
          /\ UNCHANGED <<connVars, mainVars, histVars, envVars>>
       \/ Exit("start_scan")

\* scan_for, lines 40-41: sleep, then stop the scan
IpsStopScan ==
    /\ pc = "ips_stop"
    /\ \/ /\ now' = (IF now < MaxTime THEN now + 1 ELSE now)
          /\ scanning' = FALSE
          /\ pc' = "ips_list"
          /\ UNCHANGED <<target, caller, subscribed, nextSid, failure, notified>>
          /\ UNCHANGED <<connVars, mainVars, histVars>>
       \/ Exit("stop_scan")

\* a variant of IpsList: an empty scan is returned as an error
IpsList_emptyIsError ==
    /\ pc = "ips_list"
    /\ \/ /\ \E ps \in ScanResults \ {<<>>} :
                /\ peripherals' = ps
                /\ pc' = "ips_names"
                /\ emptyScans' = 0
          /\ UNCHANGED <<target, caller, scanning, subscribed, nextSid, failure>>
          /\ UNCHANGED <<items, peripheral, props, connFails, characteristics>>
          /\ UNCHANGED <<lookups, selection, battery_level>>
          /\ UNCHANGED <<mainVars, histVars, envVars>>
       \/ Exit("no_peripherals")
       \/ Exit("peripherals")

\* interactive_peripheral_scan, lines 174-178
IpsList ==
    /\ pc = "ips_list"
    /\ \/ /\ \E ps \in ScanResults :
                /\ peripherals' = ps
                /\ pc' = IF ps = <<>> THEN "ips_start" ELSE "ips_names"
                /\ emptyScans' = IF ps # <<>> THEN 0
                                 ELSE IF emptyScans < MaxEmptyScans
                                      THEN emptyScans + 1 ELSE emptyScans
          /\ UNCHANGED <<target, caller, scanning, subscribed, nextSid, failure>>
          /\ UNCHANGED <<items, peripheral, props, connFails, characteristics>>
          /\ UNCHANGED <<lookups, selection, battery_level>>
          /\ UNCHANGED <<mainVars, histVars, envVars>>
       \/ Exit("peripherals")

\* the orders in which n lookups can complete
CompletionOrders(n) ==
    {o \in [1..n -> 1..n] : \A i, j \in 1..n : o[i] = o[j] => i = j}

\* a variant of JoinAll: the results are collected in the order of completion
JoinAll_completionOrder(results, order) ==
    [k \in 1..Len(order) |-> results[order[k]]]

\* futures::future::join_all: the k-th completion is that of future order[k],
\* and its result goes to the place of that future in the output
JoinAll(results, order) ==
    [i \in 1..Len(order) |->
        results[order[CHOOSE k \in 1..Len(order) : order[k] = i]]]

\* interactive_peripheral_scan, lines 180-189, and get_peripheral_local_names
IpsNames ==
    /\ pc = "ips_names"
    /\ \E names \in [1..Len(peripherals) -> LocalNames \cup {None}] :
       \E order \in CompletionOrders(Len(peripherals)) :
          /\ lookups' = [names |-> names, order |-> order]
          /\ items' = <<ScanAgainItem>> \o
                      [i \in 1..Len(peripherals) |->
                          NameOrEmpty(JoinAll(names, order)[i])]
    /\ pc' = "ips_select"
    /\ UNCHANGED <<target, caller, scanning, subscribed, nextSid, failure>>
    /\ UNCHANGED <<peripherals, peripheral, props, connFails, characteristics>>
    /\ UNCHANGED <<emptyScans, selection, battery_level>>
    /\ UNCHANGED <<mainVars, histVars, envVars>>

\* interactive_peripheral_scan, lines 191-195: the prompt. Select returns the
\* index of an item; line 206 also provides for an index beyond the list
IpsSelect ==
    /\ pc = "ips_select"
    /\ \/ /\ \E peripheral_selection \in 0..Len(items) :
                selection' = peripheral_selection
          /\ pc' = "ips_chosen"
          /\ UNCHANGED <<target, caller, scanning, subscribed, nextSid, failure>>
          /\ UNCHANGED <<peripherals, items, peripheral, props, connFails,
                         characteristics>>
          /\ UNCHANGED <<emptyScans, lookups, battery_level>>
          /\ UNCHANGED <<mainVars, histVars, envVars>>
       \/ Exit("interact")

\* interactive_peripheral_scan, lines 196-207; the locals of a round that
\* scans again are dropped, those of the round that returns are kept until
\* connect_to_peripheral returns
IpsChoose ==
    /\ pc = "ips_chosen"
    /\ IF selection # 0 /\ Get(peripherals, selection - 1) # None
       THEN /\ peripheral' = Get(peripherals, selection - 1)
            /\ pc' = "props"
            /\ UNCHANGED <<peripherals, items, lookups, selection>>
       ELSE /\ pc' = "ips_start"
            /\ peripherals' = <<>>
            /\ items' = <<>>
            /\ lookups' = NoLookups
            /\ selection' = 0
            /\ UNCHANGED peripheral
    /\ UNCHANGED <<target, caller, scanning, subscribed, nextSid, failure>>
    /\ UNCHANGED <<props, connFails, characteristics, emptyScans, battery_level>>
    /\ UNCHANGED <<mainVars, histVars, envVars>>

\* connect_to_peripheral, lines 248-252
Properties ==
    /\ pc = "props"
    /\ \/ /\ \E n \in LocalNames \cup {None} :
                props' = [address |-> peripheral, name |-> NameOrEmpty(n)]
          /\ pc' = "connect"
          /\ UNCHANGED <<target, caller, scanning, subscribed, nextSid, failure>>
          /\ UNCHANGED <<peripherals, items, peripheral, connFails, characteristics>>
          /\ UNCHANGED <<selVars, mainVars, histVars, envVars>>
       \/ Exit("properties")
       \/ Panic("properties_none")

\* a variant of Connect: a failed connect call is returned to the caller
Connect_givesUp ==
    /\ pc = "connect"
    /\ \/ /\ pc' = "discover"
          /\ UNCHANGED failure
          /\ UNCHANGED restVars
       \/ Exit("connect")

\* connect_to_peripheral, lines 258-260: one round of the connect loop
Connect ==
    /\ pc = "connect"
    /\ \/ /\ connFails < MaxConnFail
          /\ connFails' = connFails + 1
          /\ pc' = "connect"
       \/ /\ pc' = "discover"
          /\ UNCHANGED connFails
    /\ UNCHANGED <<target, caller, scanning, subscribed, nextSid, failure>>
    /\ UNCHANGED <<peripherals, items, peripheral, props, characteristics>>
    /\ UNCHANGED <<selVars, mainVars, histVars, envVars>>

\* connect_to_peripheral, lines 266-267
Discover ==
    /\ pc = "discover"
    /\ \/ /\ \E cs \in SUBSET Characteristics : characteristics' = cs
          /\ pc' = "find_battery"
          /\ UNCHANGED <<target, caller, scanning, subscribed, nextSid, failure>>
          /\ UNCHANGED <<peripherals, items, peripheral, props, connFails>>
          /\ UNCHANGED <<selVars, mainVars, histVars, envVars>>
       \/ Exit("discover_services")

\* connect_to_peripheral, lines 269-272
FindBattery ==
    /\ pc = "find_battery"
    /\ IF BATTERY_LEVEL_CHARACTERISTIC_UUID \in characteristics
       THEN /\ pc' = "read_battery"
            /\ UNCHANGED failure
            /\ UNCHANGED restVars
       ELSE Panic("battery_missing")

\* connect_to_peripheral, line 273
ReadBattery ==
    /\ pc = "read_battery"
    /\ \/ \E value \in BatteryValues :
            IF value # <<>>
            THEN /\ pc' = "find_heart_rate"
                 /\ battery_level' = <<value[1]>>
                 /\ UNCHANGED <<target, caller, scanning, subscribed, nextSid,
                                failure>>
                 /\ UNCHANGED <<peripherals, items, peripheral, props, connFails,
                                characteristics>>
                 /\ UNCHANGED <<emptyScans, lookups, selection>>
                 /\ UNCHANGED <<mainVars, histVars, envVars>>
            ELSE Panic("battery_empty")
       \/ Exit("read")

\* a variant of FindHeartRate: a missing characteristic starts discovery again
FindHeartRate_retries ==
    /\ pc = "find_heart_rate"
    /\ pc' = IF HEART_RATE_CHARACTERISTIC_UUID \in characteristics
             THEN "subscribe" ELSE "discover"
    /\ UNCHANGED failure
    /\ UNCHANGED restVars

\* connect_to_peripheral, lines 279-282
FindHeartRate ==
    /\ pc = "find_heart_rate"
    /\ IF HEART_RATE_CHARACTERISTIC_UUID \in characteristics
       THEN /\ pc' = "subscribe"
            /\ UNCHANGED failure
            /\ UNCHANGED restVars
       ELSE Panic("heart_rate_missing")

\* a variant of Subscribe: the stream is obtained without subscribing
Subscribe_skipped ==
    /\ pc = "subscribe"
    /\ pc' = "notifications"
    /\ UNCHANGED failure
    /\ UNCHANGED restVars

\* connect_to_peripheral, line 283
Subscribe ==
    /\ pc = "subscribe"
    /\ \/ /\ subscribed' = TRUE
          /\ pc' = "notifications"
          /\ UNCHANGED <<target, caller, scanning, nextSid, failure>>
          /\ UNCHANGED <<connVars, mainVars, histVars, envVars>>
       \/ Exit("subscribe")

\* a variant of AfterConnect: the log writer is made after every connect
AfterConnect_reopensLog(c) == "get_log_writer"

\* where main goes on after the call: line 130 after the one of line 129, the
\* head of the loop after the one of line 164
AfterConnect(c) == IF c = "initial" THEN "get_log_writer" ELSE "await"

\* connect_to_peripheral, lines 289-293, and the caller's assignment
\* (line 129 or line 163): the returned value replaces connected_peripheral
Notifications ==
    /\ pc = "notifications"
    /\ \/ /\ session' = ConnectedPeripheral(props, nextSid)
          /\ nextSid' = nextSid + 1
          /\ pc' = AfterConnect(caller)
          /\ waited' = 0
          /\ ReturnFromConnect
          /\ UNCHANGED <<scanning, failure>>
          /\ UNCHANGED <<histVars, envVars>>
          /\ UNCHANGED <<writer, data, outcome, sent, rows>>
       \/ Exit("notifications")

(* -------------------------------- main --------------------------------- *)
\* main, line 130, and get_log_writer: Writer::from_path creates the file
\* named after the current time, empty
GetLogWriter ==
    /\ pc = "get_log_writer"
    /\ \/ /\ writer' = [open |-> TRUE, buffered |-> <<>>]
          /\ rows' = <<>>
          /\ pc' = "await"
          /\ waited' = 0
          /\ UNCHANGED <<target, caller, scanning, subscribed, nextSid, failure>>
          /\ UNCHANGED <<connVars, histVars, envVars>>
          /\ UNCHANGED <<session, data, outcome, sent>>
       \/ Exit("log_create")

\* a variant of TimedOut: the deadline is looked at before the stream
TimedOut_ignoresStream(s, w) == w >= Threshold

\* timeout(threshold, ..) polls the stream before it looks at the deadline
TimedOut(s, w) == /\ s.notification_stream = <<>>
                  /\ ~s.closed
                  /\ w >= Threshold

\* main, lines 133-134: the stream yields a notification
AwaitSome ==
    /\ pc = "await"
    /\ session.notification_stream # <<>>
    /\ data' = Head(session.notification_stream)
    /\ session' = [session EXCEPT !.notification_stream = Tail(@)]
    /\ outcome' = "Some"
    /\ taken' = taken + 1
    /\ pc' = "decode"
    /\ UNCHANGED <<target, caller, scanning, subscribed, nextSid, failure>>
    /\ UNCHANGED <<connVars, envVars, timeoutsSince, connectsSince>>
    /\ UNCHANGED <<writer, waited, sent, rows>>

\* main, line 157: the stream has ended; the arm is empty and the loop goes round
AwaitNone ==
    /\ pc = "await"
    /\ session.notification_stream = <<>>
    /\ session.closed
    /\ outcome' = "None"
    /\ pc' = "await"
    /\ waited' = 0
    /\ UNCHANGED <<target, caller, scanning, subscribed, nextSid, failure>>
    /\ UNCHANGED <<connVars, histVars, envVars>>
    /\ UNCHANGED <<session, writer, data, sent, rows>>

\* a variant of AwaitTimeout: the timeout is logged and the loop goes round
AwaitTimeout_noReconnect ==
    /\ pc = "await"
    /\ TimedOut(session, waited)
    /\ session.sid < MaxSessions
    /\ timeoutsSince < MaxSessions
    /\ outcome' = "Timeout"
    /\ timeoutsSince' = timeoutsSince + 1
    /\ waited' = 0
    /\ UNCHANGED <<pc, target, caller, scanning, subscribed, nextSid, failure>>
    /\ UNCHANGED <<connVars, envVars, connectsSince, taken>>
    /\ UNCHANGED <<session, writer, data, sent, rows>>

\* main, lines 158-165: the wait timed out
AwaitTimeout ==
    /\ pc = "await"
    /\ TimedOut(session, waited)
    /\ session.sid < MaxSessions
    /\ outcome' = "Timeout"
    /\ timeoutsSince' = timeoutsSince + 1
    /\ CallConnect(ReconnectTarget(session), "reconnect")
    /\ UNCHANGED <<scanning, subscribed, nextSid, taken, failure>>
    /\ UNCHANGED connVars
    /\ UNCHANGED <<session, writer, data, waited, sent, rows>>
    /\ UNCHANGED envVars

\* main, line 139
Decode ==
    /\ pc = "decode"
    /\ IF Len(data.value) >= 2
       THEN /\ pc' = "encode"
            /\ UNCHANGED failure
            /\ UNCHANGED restVars
       ELSE Panic("index_out_of_bounds")

\* main, lines 140-145
Encode ==
    /\ pc = "encode"
    /\ \/ /\ pc' = "send"
          /\ UNCHANGED failure
          /\ UNCHANGED restVars
       \/ Exit("encode")

\* the datagram of lines 140-146; from and cur tell the stream the
\* notification was read from and the session current at the send
Datagram(d, s) ==
    [addr |-> HeartRateOscAddress, to |-> Receiver,
     arg |-> Percent(BeatsPerMinute(d.value)), from |-> d.sid, cur |-> s.sid]

\* a variant of Send: a sample is forwarded only when time has passed since
\* the previous forward
Send_rateLimited ==
    /\ pc = "send"
    /\ sent' = IF rows # <<>> /\ now = rows[Len(rows)].time
               THEN sent
               ELSE Append(sent, Datagram(data, session))
    /\ pc' = "write"
    /\ UNCHANGED <<target, caller, scanning, subscribed, nextSid, failure>>
    /\ UNCHANGED <<connVars, histVars, envVars>>
    /\ UNCHANGED <<session, writer, data, waited, outcome, rows>>

\* main, line 146
Send ==
    /\ pc = "send"
    /\ \/ /\ sent' = Append(sent, Datagram(data, session))
          /\ pc' = "write"
          /\ UNCHANGED <<target, caller, scanning, subscribed, nextSid, failure>>
          /\ UNCHANGED <<connVars, histVars, envVars>>
          /\ UNCHANGED <<session, writer, data, waited, outcome, rows>>
       \/ Exit("send_to")

\* a variant of WriteRecord: a row that cannot be written is skipped
WriteRecord_skipsOnError ==
    /\ pc = "write"
    /\ \/ /\ writer' = [writer EXCEPT !.buffered =
                Append(@, [time |-> now,
                           heart_rate |-> ToString(BeatsPerMinute(data.value))])]
          /\ pc' = "flush"
          /\ UNCHANGED <<target, caller, scanning, subscribed, nextSid, failure>>
          /\ UNCHANGED <<connVars, histVars, envVars>>
          /\ UNCHANGED <<session, data, waited, outcome, sent, rows>>
       \/ /\ failure' = "write_record"
          /\ pc' = "flush"
          /\ UNCHANGED restVars

\* main, lines 152-154
WriteRecord ==
    /\ pc = "write"
    /\ \/ /\ writer' = [writer EXCEPT !.buffered =
                Append(@, [time |-> now,
                           heart_rate |-> ToString(BeatsPerMinute(data.value))])]
          /\ pc' = "flush"
          /\ UNCHANGED <<target, caller, scanning, subscribed, nextSid, failure>>
          /\ UNCHANGED <<connVars, histVars, envVars>>
          /\ UNCHANGED <<session, data, waited, outcome, sent, rows>>
       \/ Exit("write_record")

\* a variant of Flush: the row stays in the writer's buffer
Flush_keepsBuffer ==
    /\ pc = "flush"
    /\ pc' = "await"
    /\ waited' = 0
    /\ data' = NoData
    /\ timeoutsSince' = 0
    /\ connectsSince' = 0
    /\ UNCHANGED <<target, caller, scanning, subscribed, nextSid, taken, failure>>
    /\ UNCHANGED <<connVars, envVars>>
    /\ UNCHANGED <<session, writer, outcome, sent, rows>>

\* main, line 155, and the return to the head of the loop
Flush ==
    /\ pc = "flush"
    /\ \/ /\ rows' = rows \o writer.buffered
          /\ writer' = [writer EXCEPT !.buffered = <<>>]
          /\ pc' = "await"
          /\ waited' = 0
          /\ data' = NoData
          /\ timeoutsSince' = 0
          /\ connectsSince' = 0
          /\ UNCHANGED <<target, caller, scanning, subscribed, nextSid, taken, failure>>
          /\ UNCHANGED <<connVars, envVars>>
          /\ UNCHANGED <<session, outcome, sent>>
       \/ Exit("flush")

(* ----------------------------- environment ----------------------------- *)
\* the peripheral pushes a notification into the stream of the live session
Notify ==
    /\ Running
    /\ session # NoSession
    /\ ~session.closed
    /\ notified < MaxNotifs
    /\ \E value \in Payloads :
          session' = [session EXCEPT !.notification_stream =
                         Append(@, [sid |-> session.sid, value |-> value])]
    /\ notified' = notified + 1
    /\ UNCHANGED <<pc, target, caller, scanning, subscribed, nextSid, failure, now>>
    /\ UNCHANGED <<connVars, histVars>>
    /\ UNCHANGED <<writer, data, waited, outcome, sent, rows>>

\* the notification stream of the live session ends
StreamEnd ==
    /\ Running
    /\ session # NoSession
    /\ ~session.closed
    /\ session' = [session EXCEPT !.closed = TRUE]
    /\ UNCHANGED <<pc, target, caller, scanning, subscribed, nextSid, failure>>
    /\ UNCHANGED <<connVars, histVars, envVars>>
    /\ UNCHANGED <<writer, data, waited, outcome, sent, rows>>

\* time passes while main waits for a notification
Tick ==
    /\ pc = "await"
    /\ waited < Threshold
    /\ waited' = waited + 1
    /\ now' = (IF now < MaxTime THEN now + 1 ELSE now)
    /\ UNCHANGED <<pc, target, caller, scanning, subscribed, nextSid, failure, notified>>
    /\ UNCHANGED <<connVars, histVars>>
    /\ UNCHANGED <<session, writer, data, outcome, sent, rows>>

Next ==
    \/ MainConnect
    \/ SfpStartScan
    \/ SfpPoll
    \/ SfpStopScan
    \/ IpsStartScan
    \/ IpsStopScan
    \/ IpsList
    \/ IpsNames
    \/ IpsSelect
    \/ IpsChoose
    \/ Properties
    \/ Connect
    \/ Discover
    \/ FindBattery
    \/ ReadBattery
    \/ FindHeartRate
    \/ Subscribe
    \/ Notifications
    \/ GetLogWriter
    \/ AwaitSome
    \/ AwaitNone
    \/ AwaitTimeout
    \/ Decode
    \/ Encode
    \/ Send
    \/ WriteRecord
    \/ Flush
    \/ Notify
    \/ StreamEnd
    \/ Tick

Spec == Init /\ [][Next]_vars

(* ------------------------- positions of control ------------------------ *)
InteractivePcs == {"ips_start", "ips_stop", "ips_list", "ips_names", "ips_select",
                   "ips_chosen"}
AddressPcs == {"sfp_start", "sfp_poll", "sfp_stop"}
ConnectPcs == InteractivePcs \cup AddressPcs \cup
              {"props", "connect", "discover", "find_battery", "read_battery",
               "find_heart_rate", "subscribe", "notifications"}
ProcessingPcs == {"decode", "encode", "send", "write", "flush"}
EndedPcs == {"exited", "panicked"}

(* ------------------------------- claims -------------------------------- *)

\* C1: when the wait for a notification times out, main calls
\* connect_to_peripheral with Some(address of the current session); while
\* that reconnect runs the interactive selector is never entered and the
\* target stays the address of the session; the session it returns, a new
\* one, has replaced the old one when the loop awaits again.
C1_TimeoutReconnectsToKnownAddress ==
    [][ /\ (pc = "await" /\ TimedOut(session, waited) /\ pc' # pc)
            => /\ caller' = "reconnect"
               /\ target' # None
               /\ target' = session.address
               /\ pc' = "sfp_start"
        /\ (caller' = "reconnect")
            => /\ pc' \notin InteractivePcs
               /\ target' = session'.address
        /\ (caller = "reconnect" /\ pc' = "await")
            => /\ session'.sid = nextSid
               /\ session'.sid # session.sid
               /\ session'.notification_stream = <<>>
      ]_vars

C1_Witness == /\ pc = "await"
              /\ outcome = "Timeout"
              /\ session.sid = 2

\* C2: when the notification stream of the current session ends (next()
\* yields None), the pipeline goes to reconnect: a connect to the same
\* address is running right after the wait resolved to None.
C2_StreamEndReconnects ==
    (outcome = "None") => (caller = "reconnect" /\ pc \in ConnectPcs)

\* C3: a notification whose payload has fewer than 2 bytes never stops the
\* pipeline: the step that handles it sends nothing, logs nothing and
\* returns to awaiting on the same session.
C3_ShortPayloadDiscarded ==
    [][ (pc = "decode" /\ Len(data.value) < 2 /\ pc' # pc)
            => /\ pc' = "await"
               /\ sent' = sent
               /\ rows' = rows
               /\ session'.sid = session.sid
      ]_vars

\* C4, as claimed: when a notification has been decoded, sent and written
\* after at least one timed-out wait, exactly one reconnect call was made
\* since the previous processed notification.
C4_ExactlyOneReconnect ==
    (pc = "flush" /\ timeoutsSince >= 1) => connectsSince = 1

\* C4, amended: every timed-out wait triggers exactly one reconnect call, so
\* the reconnect calls since the last processed notification are as many as
\* the waits that timed out since then.
C4_OneReconnectPerTimeout ==
    /\ connectsSince = timeoutsSince
    /\ (outcome = "Timeout" /\ pc # "await") => connectsSince >= 1

C4_Witness == /\ pc = "flush"
              /\ timeoutsSince = 2
              /\ connectsSince = 2

\* C5: the loop works on the one current session: the notifications in its
\* stream, the notification being processed and every datagram sent were read
\* from the stream of the session current at that moment, nothing is
\* processed while a connect runs, and a notification that reached the old
\* stream after a reconnect began is never forwarded.
C5_OnlyCurrentSessionForwarded ==
    /\ \A i \in 1..Len(sent) : sent[i].from = sent[i].cur
    /\ \A i \in 1..Len(session.notification_stream) :
          session.notification_stream[i].sid = session.sid
    /\ pc \in ProcessingPcs => data.sid = session.sid
    /\ caller # "none" => pc \notin ProcessingPcs
    /\ session.sid < nextSid

\* a notification reached the old stream and was dropped with it; the one
\* forwarded was read from the stream of the second session
C5_Witness == /\ pc = "await"
              /\ session.sid = 2
              /\ notified = 2
              /\ taken = 1
              /\ Len(sent) = 1
              /\ sent[1].from = 2

ConnectPanics == {"properties_none", "battery_missing", "battery_empty",
                  "heart_rate_missing"}
ConnectErrors == {"start_scan", "peripherals", "stop_scan", "interact",
                  "properties", "discover_services", "read", "subscribe",
                  "notifications"}

C7_ConnectRetriedUntilSuccess ==
    [][ /\ (pc = "connect" /\ pc' # pc)
            => (pc' = "discover" /\ failure' = "none")
        /\ (pc = "connect" /\ connFails' # connFails)
            => /\ connFails' = connFails + 1
               /\ pc' = "connect"
               /\ UNCHANGED <<peripheral, props, target, scanning, now, failure>>
        /\ (pc' = "discover" /\ pc # "discover") => pc = "connect"
      ]_vars

C7_Witness == /\ pc = "discover"
              /\ connFails = MaxConnFail

\* a required characteristic is absent from the discovered ones
MissingCharacteristic ==
    /\ pc \in {"find_battery", "read_battery", "find_heart_rate"}
    /\ ~(Characteristics \subseteq characteristics)

\* C8: once discovery has left a required characteristic absent, the attempt
\* can only end: the lookup of the absent characteristic panics, no scan or
\* connect call is made, nothing is subscribed, no session is produced,
\* nothing is forwarded or logged, and nothing happens after the end.
C8_MissingCharacteristicIsFatal ==
    [][ /\ MissingCharacteristic
            => /\ pc' \in {"find_battery", "read_battery", "find_heart_rate"}
                          \cup EndedPcs
               /\ ~subscribed'
               /\ session'.sid = session.sid
               /\ UNCHANGED <<scanning, connFails, nextSid, sent, rows, writer>>
        /\ (/\ pc = "find_battery"
            /\ BATTERY_LEVEL_CHARACTERISTIC_UUID \notin characteristics
            /\ pc' # pc) => pc' = "panicked"
        /\ (/\ pc = "find_heart_rate"
            /\ HEART_RATE_CHARACTERISTIC_UUID \notin characteristics
            /\ pc' # pc) => pc' = "panicked"
        /\ pc \notin EndedPcs
      ]_vars

C8_Witness == /\ pc = "panicked"
              /\ failure = "heart_rate_missing"
              /\ caller = "reconnect"
              /\ ~subscribed
              /\ session.sid = 1

\* C9: every notification taken from the stream that decodes has produced
\* exactly one datagram, to /avatar/parameters/HeartRate at the receiver and
\* carrying its value, when the loop awaits again; no notification produces
\* two; the datagram is sent whatever time has passed since the last one.
C9_OneMessagePerNotification ==
    /\ pc \in {"await"} \cup ConnectPcs => Len(sent) = taken
    /\ pc \in {"decode", "encode", "send"} => Len(sent) = taken - 1
    /\ pc \in {"write", "flush"}
          => /\ Len(sent) = taken
             /\ sent[Len(sent)].arg = Percent(data.value[2])
    /\ Len(sent) <= taken
    /\ taken <= Len(sent) + 1
    /\ \A i \in 1..Len(sent) : /\ sent[i].addr = HeartRateOscAddress
                               /\ sent[i].to = Receiver

\* two samples forwarded with no time between them
C9_Witness == /\ pc = "await"
              /\ taken = 2
              /\ Len(sent) = 2
              /\ Len(rows) = 2
              /\ rows[1].time = rows[2].time

\* C10: every forwarded sample gets one log row, flushed before the loop
\* awaits again: the flushed rows are as many as the datagrams sent whenever
\* the loop awaits, and as many or one less at any other moment; the rows
\* follow the datagrams in order and value.
C10_OneRowPerForward ==
    /\ pc = "await" => Len(rows) = Len(sent)
    /\ Len(rows) <= Len(sent)
    /\ Len(sent) <= Len(rows) + 1
    /\ Len(rows) + Len(writer.buffered) <= Len(sent)
    /\ \A i \in 1..Len(rows) : rows[i].heart_rate = ToString(sent[i].arg.num)

C10_Witness == /\ pc = "flush"
               /\ Len(sent) = 2
               /\ Len(rows) = 1
               /\ Len(writer.buffered) = 1

MissingCharacteristicPanics == {"battery_missing", "heart_rate_missing"}

(* ------------------- the pipeline with a live peripheral ------------------ *)
\* the two kinds of notification that main tells apart: one too short to
\* decode and one heart rate measurement
LivePayloads == {<<6>>, <<0, 75>>}

\* the peripheral of a stalled link: a session that was silent for the whole
\* threshold stays silent, nothing arrives while a connect call runs, and the
\* last session the model follows is one that delivers
LiveNotify ==
    /\ caller = "none"
    /\ (pc = "await" /\ waited >= Threshold) => (session.sid = MaxSessions)
    /\ Notify
    /\ session'.notification_stream[Len(session'.notification_stream)].value
          \in LivePayloads

\* the peripheral found again by a reconnect exposes both characteristics
LiveDiscover ==
    /\ Discover
    /\ (caller = "reconnect" /\ pc' = "find_battery")
          => (characteristics' = Characteristics)

\* the steps of the one control flow of main
MainStep ==
    \/ MainConnect
    \/ SfpStartScan
    \/ SfpPoll
    \/ SfpStopScan
    \/ IpsStartScan
    \/ IpsStopScan
    \/ IpsList
    \/ IpsNames
    \/ IpsSelect
    \/ IpsChoose
    \/ Properties
    \/ Connect
    \/ LiveDiscover
    \/ FindBattery
    \/ ReadBattery
    \/ FindHeartRate
    \/ Subscribe
    \/ Notifications
    \/ GetLogWriter
    \/ AwaitSome
    \/ AwaitNone
    \/ AwaitTimeout
    \/ Decode
    \/ Encode
    \/ Send
    \/ WriteRecord
    \/ Flush

LiveNext ==
    \/ MainStep
    \/ LiveNotify
    \/ StreamEnd
    \/ Tick

\* main is the only task and always takes its next step; time passes; the
\* peripheral asked for becomes visible, accepts a connect call and delivers
\* notifications
LiveFairness ==
    /\ WF_vars(MainStep)
    /\ WF_vars(Tick)
    /\ WF_vars(SfpPoll /\ pc' = "sfp_stop")
    /\ WF_vars(Connect /\ pc' = "discover")
    /\ SF_vars(LiveNotify)

LiveSpec == Init /\ [][LiveNext]_vars /\ LiveFairness

\* the live session was silent for the whole threshold
Stalled(s) ==
    /\ pc = "await"
    /\ session.sid = s
    /\ TimedOut(session, waited)
    /\ notified < MaxNotifs

\* a notification of a session later than s was forwarded and logged
Resumed(s) ==
    \E i \in 1..Len(sent) : sent[i].from > s /\ i <= Len(rows)

LoopErrors == {"encode", "send_to", "write_record", "flush"}
LoopPanics == {"index_out_of_bounds"}

C13_ReconnectKeepsAddress ==
    [][ /\ (session.sid >= 1) => (session'.address = session.address)
        /\ (caller' = "reconnect" /\ props' # NoProps)
              => (props'.address = target' /\ props'.address = session'.address)
      ]_vars

\* a reconnect is about to return a session of the same address and another name
C13_Witness == /\ pc = "notifications"
               /\ caller = "reconnect"
               /\ session.sid = 2
               /\ props.address = session.address
               /\ props.name # session.name

\* C14: in interactive mode a scan that finds no peripheral is followed by
\* another scan: it returns no error, builds no list of items and shows no
\* prompt, however many empty scans came before it.
C14_EmptyScanRescans ==
    [][ /\ (pc = "ips_list" /\ pc' # pc)
            => \/ /\ pc' = "ips_start"
                  /\ peripherals' = <<>>
                  /\ failure' = "none"
                  /\ UNCHANGED <<items, selection, peripheral>>
               \/ /\ pc' = "ips_names"
                  /\ peripherals' # <<>>
               \/ /\ pc' = "exited"
                  /\ failure' = "peripherals"
        /\ (pc' \in {"ips_names", "ips_select", "ips_chosen"}) => peripherals' # <<>>
        /\ (emptyScans' > emptyScans) => (pc' = "ips_start" /\ failure' = "none")
      ]_vars

C14_Witness == /\ pc = "ips_start"
               /\ emptyScans = MaxEmptyScans
               /\ failure = "none"

\* C15, as claimed: whenever scan_for_peripheral has returned, with a
\* peripheral or with an error, the scan it started is stopped.
C15_ScanStoppedOnEveryReturn ==
    (caller # "none" /\ target # None /\ pc \notin AddressPcs) => ~scanning

\* C15, amended: scan_for_peripheral returns a peripheral only of the address
\* asked for and with the scan stopped; a poll that does not find it sleeps
\* one interval and polls again; a failure to list the peripherals is
\* returned with the scan still started, and so is a failure to stop it.
C15_ScanForPeripheral ==
    [][ /\ (pc = "sfp_poll" /\ pc' # pc)
            => \/ /\ pc' = "sfp_stop"
                  /\ peripheral' = target
                  /\ failure' = "none"
               \/ /\ pc' = "exited"
                  /\ failure' = "peripherals"
                  /\ scanning'
        /\ (pc = "sfp_poll" /\ pc' = pc /\ now' # now)
            => /\ now' = now + 1
               /\ peripheral' = None
               /\ scanning'
        /\ (pc = "sfp_stop" /\ pc' # pc)
            => \/ /\ pc' = "props"
                  /\ ~scanning'
                  /\ peripheral' = target
               \/ /\ pc' = "exited"
                  /\ failure' = "stop_scan"
                  /\ scanning'
        /\ (pc' = "props" /\ target' # None)
            => (peripheral' = target' /\ ~scanning')
      ]_vars

\* the first poll found nothing, a later one the peripheral asked for
C15_Witness == /\ pc = "props"
               /\ target \in Addrs
               /\ peripheral = target
               /\ ~scanning
               /\ now >= 2

\* the number a string of decimal digits stands for
DigitValue(c) == CHOOSE d \in 0..9 : ToString(d) = <<c>>

RECURSIVE ParseDigits(_)
ParseDigits(str) ==
    IF str = <<>> THEN 0
    ELSE 10 * ParseDigits(SubSeq(str, 1, Len(str) - 1)) + DigitValue(str[Len(str)])

\* C16: the heart rate forwarded and logged for a notification of at least
\* two bytes is the byte at index 1, whatever byte 0, the bytes after index 1
\* and the length are: the message carries that byte over 255, the row its
\* decimal digits, and two payloads that agree at index 1 give the same
\* message.
C16_DecodeIsByteOne ==
    /\ (pc \in {"write", "flush"})
          => /\ sent[Len(sent)].arg.num = data.value[2]
             /\ sent[Len(sent)].arg.den = U8_MAX
    /\ (pc = "flush")
          => ParseDigits(writer.buffered[Len(writer.buffered)].heart_rate)
                = data.value[2]
    /\ \A p, q \in Payloads :
          (Len(p) >= 2 /\ Len(q) >= 2 /\ p[2] = q[2])
             => /\ BeatsPerMinute(p) = BeatsPerMinute(q)
                /\ Datagram([sid |-> 1, value |-> p], session).arg
                     = Datagram([sid |-> 1, value |-> q], session).arg

\* a payload of three bytes with a flag byte that is not 0 was forwarded and
\* logged as its byte at index 1
C16_Witness == /\ pc = "flush"
               /\ data.value = <<22, 75, 3>>
               /\ sent[Len(sent)].arg = Percent(75)
               /\ writer.buffered[Len(writer.buffered)].heart_rate = ToString(75)

\* C17: the list shown has "[Scan again]" first and then one label per
\* peripheral in the order of the scan, each the name looked up for that
\* peripheral in whatever order the lookups completed; the entry 0 and an
\* entry beyond the list start a new scan, and the entry i returns the i-th
\* peripheral of the scan the list was built from.
C17_SelectionReturnsShownPeripheral ==
    [][ /\ (pc' \in {"ips_select", "ips_chosen"})
            => /\ Len(items') = Len(peripherals') + 1
               /\ items'[1] = ScanAgainItem
               /\ \A i \in 1..Len(peripherals') :
                     items'[i + 1] = NameOrEmpty(lookups'.names[i])
        /\ (pc \in {"ips_select", "ips_chosen"} /\ pc' \in {"ips_select", "ips_chosen"})
            => UNCHANGED <<peripherals, items>>
        /\ (pc = "ips_chosen" /\ pc' # pc)
            => IF selection = 0 \/ selection > Len(peripherals)
               THEN pc' = "ips_start" /\ peripheral' = peripheral
               ELSE pc' = "props" /\ peripheral' = peripherals[selection]
      ]_vars

\* the second lookup completed first, the names differ, and the entry 2
\* returned the second peripheral of the scan
C17_Witness == /\ pc = "props"
               /\ caller = "initial"
               /\ target = None
               /\ selection = 2
               /\ peripherals = <<"A2", "A1">>
               /\ lookups.order = <<2, 1>>
               /\ lookups.names[1] # lookups.names[2]
               /\ items[3] = NameOrEmpty(lookups.names[2])
               /\ peripheral = "A1"

\* C18: each wait ends in exactly one of the three outcomes; a reconnect
\* starts only from a wait that lasted the whole threshold with no
\* notification pending; a pending notification is what the wait returns,
\* also at the deadline; and every wait starts from zero.
C18_RaceHasOneOutcome ==
    [][ /\ (caller' = "reconnect" /\ caller # "reconnect")
            => /\ pc = "await"
               /\ waited >= Threshold
               /\ session.notification_stream = <<>>
               /\ outcome' = "Timeout"
        /\ (pc = "await" /\ pc' # pc /\ session.notification_stream # <<>>)
            => /\ pc' = "decode"
               /\ outcome' = "Some"
               /\ data' = Head(session.notification_stream)
               /\ caller' = "none"
        /\ (pc = "await" /\ pc' # pc)
            => \/ pc' = "decode" /\ outcome' = "Some"
               \/ pc' # "decode" /\ outcome' = "Timeout"
        /\ (pc # "await" /\ pc' = "await") => waited' = 0
        /\ (pc = "await" /\ pc' = "await" /\ waited' # waited)
            => \/ waited' = waited + 1 /\ waited < Threshold
               \/ waited' = 0 /\ outcome' = "None"
        /\ waited' <= Threshold
      ]_vars

\* after a reconnect a notification that came during the wait was consumed
C18_Witness == /\ pc = "decode"
               /\ outcome = "Some"
               /\ waited >= 1
               /\ waited < Threshold
               /\ session.sid = 2
               /\ data.sid = 2

\* C19: the log writer is made once, after the initial connect and never in
\* a reconnect; a reconnect changes neither the writer nor the rows of the
\* file nor what was sent on the socket; the rows of the file only grow at
\* their end, and with a clock that never runs backwards their timestamps
\* never decrease, also across a reconnect.
C19_LogIsAppendOnly ==
    [][ /\ (pc' = "get_log_writer" /\ pc # pc')
            => (caller = "initial" /\ ~writer.open /\ session.sid = 0)
        /\ (writer'.open # writer.open)
            => (pc = "get_log_writer" /\ writer'.open /\ session.sid = 1)
        /\ (caller = "reconnect" \/ caller' = "reconnect")
            => UNCHANGED <<writer, rows, sent>>
        /\ Len(rows') >= Len(rows)
        /\ SubSeq(rows', 1, Len(rows)) = rows
        /\ \A i, j \in 1..Len(rows') : (i <= j) => (rows'[i].time <= rows'[j].time)
        /\ (rows' # rows) => (pc = "flush" /\ caller = "none")
      ]_vars

\* a row of the first session and a later row of the second one in one file
C19_Witness == /\ Len(rows) = 2
               /\ Len(sent) = 2
               /\ sent[1].cur = 1
               /\ sent[2].cur = 2
               /\ rows[1].time < rows[2].time
               /\ writer.open

\* the step that follows each step of connect_to_peripheral
StepAfter(p) ==
    CASE p = "props" -> {"connect"}
      [] p = "connect" -> {"connect", "discover"}
      [] p = "discover" -> {"find_battery"}
      [] p = "find_battery" -> {"read_battery"}
      [] p = "read_battery" -> {"find_heart_rate"}
      [] p = "find_heart_rate" -> {"subscribe"}
      [] p = "subscribe" -> {"notifications"}
      [] p = "notifications" -> {"get_log_writer", "await"}
      [] OTHER -> {}

BatteryNumbers == {v[1] : v \in BatteryValues \ {<<>>}}

\* C20: a connect attempt resolves the peripheral, reads its properties,
\* connects with retries, discovers the services, reads the battery level
\* once, subscribes and obtains the stream, in this order and with no other
\* step in between; a session is returned only with the subscription made;
\* nothing is sent or logged while the attempt runs, and no message or row
\* carries the battery level.
C20_ConnectStepsInOrder ==
    [][ /\ (pc \in ConnectPcs /\ StepAfter(pc) # {} /\ pc' # pc /\ pc' \notin EndedPcs)
            => pc' \in StepAfter(pc)
        /\ (pc' = "props" /\ pc # "props")
            => (pc \in {"sfp_stop", "ips_chosen"} /\ peripheral' # None)
        /\ (battery_level' # battery_level /\ battery_level' # <<>>)
            => (pc = "read_battery" /\ battery_level = <<>>)
        /\ (pc' \in {"find_heart_rate", "subscribe", "notifications"})
            => battery_level' # <<>>
        /\ (subscribed' /\ ~subscribed) => (pc = "subscribe" /\ pc' = "notifications")
        /\ (session'.sid # session.sid)
            => /\ pc = "notifications"
               /\ subscribed
               /\ session'.notification_stream = <<>>
               /\ session'.sid = session.sid + 1
        /\ (caller # "none") => UNCHANGED <<sent, rows>>
        /\ \A i \in 1..Len(sent') : sent'[i].arg.num \notin BatteryNumbers
        /\ \A i \in 1..Len(rows') : ParseDigits(rows'[i].heart_rate) \notin BatteryNumbers
      ]_vars

\* a reconnect whose connect call failed first has read the battery level,
\* subscribed, and is about to return the session
C20_Witness == /\ pc = "notifications"
               /\ caller = "reconnect"
               /\ connFails >= 1
               /\ subscribed
               /\ battery_level = <<90>>
               /\ Len(sent) = 1
               /\ Len(rows) = 1

====
